---- MODULE Spec2Model ----
(***************************************************************************)
(* A model of yewno.py: the Cuboid (mine field), its Cubbies, and the Ship *)
(* that executes a script of commands against it.                          *)
(*                                                                         *)
(* Python's None is written three ways, because TLC compares only values   *)
(* of one kind: NoneRef for an absent Cubby reference, NoneDepth for       *)
(* Cubby.depth = None and NoneStr for an absent token or verdict.          *)
(***************************************************************************)
EXTENDS Integers, Sequences, FiniteSets, TLC

\* ------------------------------------------------------------------ bounds
\* most mines in a field
MaxMines == 2
\* longest script, in command lines
MaxScript == 3
\* the mine letters of the fields (ranks 1 and 3; decay passes through rank 2)
FieldLetters == {"a", "c"}
\* the (width, height) of the fields
FieldDims == {<<1, 1>>, <<2, 2>>, <<3, 3>>, <<2, 3>>, <<3, 2>>, <<1, 2>>}

\* ------------------------------------------------------- module constants
NoneRef == -1
NoneDepth == 0
NoneStr == "None"

NORTH == "north"
SOUTH == "south"
EAST == "east"
WEST == "west"
DOWN == ""

ALPHA == "alpha"
BETA == "beta"
GAMMA == "gamma"
DELTA == "delta"

PASS == "pass"
FAIL == "fail"

SHIP_MARKER == "#"
MINE_PASSED_MARKER == "*"
EMPTY_SPACE_MARKER == "."

ascii_letters ==
    << "a", "b", "c", "d", "e", "f", "g", "h", "i", "j", "k", "l", "m",
       "n", "o", "p", "q", "r", "s", "t", "u", "v", "w", "x", "y", "z",
       "A", "B", "C", "D", "E", "F", "G", "H", "I", "J", "K", "L", "M",
       "N", "O", "P", "Q", "R", "S", "T", "U", "V", "W", "X", "Y", "Z" >>

MINE_MARKERS == <<MINE_PASSED_MARKER>> \o ascii_letters

\* str.find on MINE_MARKERS: the 0-based index of z, -1 when absent
MarkerFind(z) ==
    IF \E i \in 1..Len(MINE_MARKERS) : MINE_MARKERS[i] = z
    THEN (CHOOSE i \in 1..Len(MINE_MARKERS) : MINE_MARKERS[i] = z) - 1
    ELSE -1

\* MINE_MARKERS[i] with Python's indexing: 0-based, a negative index counts
\* from the end
MarkerAt(i) ==
    IF i >= 0 THEN MINE_MARKERS[i + 1] ELSE MINE_MARKERS[Len(MINE_MARKERS) + i + 1]

\* the string keys of MOVEMENT_MAP
MovementWords == {NORTH, SOUTH, EAST, WEST}

\* MOVEMENT_MAP[word]: the (x, y) a direction word adds to the ship
MOVEMENT_MAP(word) ==
    CASE word = NORTH -> <<0, 1>>
      [] word = SOUTH -> <<0, -1>>
      [] word = EAST -> <<1, 0>>
      [] word = WEST -> <<-1, 0>>

\* MOVEMENT_MAP[vector]: the hops that reach an offset of a firing pattern
MOVEMENT_MAP_HOPS(p) ==
    CASE p = <<-1, -1>> -> <<SOUTH, WEST>>
      [] p = <<-1, 0>> -> <<WEST>>
      [] p = <<-1, 1>> -> <<NORTH, WEST>>
      [] p = <<0, 1>> -> <<NORTH>>
      [] p = <<1, 1>> -> <<NORTH, EAST>>
      [] p = <<1, 0>> -> <<EAST>>
      [] p = <<1, -1>> -> <<SOUTH, EAST>>
      [] p = <<0, -1>> -> <<SOUTH>>
      [] p = <<0, 0>> -> <<DOWN>>

\* FIRING_PATTERN_MAP with a gamma that spares the ship's own Cubby
FIRING_PATTERN_MAP_gamma_spares_own ==
    (ALPHA :> << <<-1, -1>>, <<-1, 1>>, <<1, -1>>, <<1, 1>> >>) @@
    (BETA :> << <<-1, 0>>, <<0, -1>>, <<0, 1>>, <<1, 0>> >>) @@
    (GAMMA :> << <<-1, 0>>, <<1, 0>> >>) @@
    (DELTA :> << <<0, -1>>, <<0, 0>>, <<0, 1>> >>)

FIRING_PATTERN_MAP ==
    (ALPHA :> << <<-1, -1>>, <<-1, 1>>, <<1, -1>>, <<1, 1>> >>) @@
    (BETA :> << <<-1, 0>>, <<0, -1>>, <<0, 1>>, <<1, 0>> >>) @@
    (GAMMA :> << <<-1, 0>>, <<0, 0>>, <<1, 0>> >>) @@
    (DELTA :> << <<0, -1>>, <<0, 0>>, <<0, 1>> >>)

\* ------------------------------------------------------------------ state
VARIABLES
    field,                    \* the rows the Cuboid was built from (input)
    matrix,                   \* Cuboid.matrix: rows of Cubby ids
    dimensions,               \* Cuboid.dimensions
    cubbies,                  \* the Cubby objects, by id
    mine_locations,           \* Cuboid.mine_locations: (x, y, cubby) triples
    ship_x, ship_y, ship_z,   \* Ship.x, Ship.y, Ship.z
    current_cubby,            \* Ship.current_cubby
    show_ship,                \* Ship.show_ship
    previous_cubby_marker,    \* Ship._previous_cubby_marker
    number_of_moves_made,
    number_of_vollys_fired,
    number_of_initial_mines,
    number_of_commands_left,
    starting_score,
    step_count,               \* turns started by execute_command_scrip_file
    pc,                       \* "loop", "done" (the loop was left), "crashed"
    err,                      \* the exception that ended the run, or "none"
    verdict,                  \* what the last check_score call returned
    last,                     \* the (torpedoe, movement) of the last turn
    call,                     \* the last direct call of a Cubby method
    destroyed_times,          \* per Cubby: destroy_mine calls that returned True
    ng                        \* the Ship and Cuboid of yewno-new-graph.py, if run

vars ==
    << field, matrix, dimensions, cubbies, mine_locations, ship_x, ship_y,
       ship_z, current_cubby, show_ship, previous_cubby_marker,
       number_of_moves_made, number_of_vollys_fired, number_of_initial_mines,
       number_of_commands_left, starting_score, step_count, pc, err, verdict,
       last, call, destroyed_times, ng >>

\* ------------------------------------------------------------------ Cubby
\* Cubby.__init__; the four links are filled in by Cuboid.__init__
Cubby(x, y, z, cubby_id) ==
    [ x |-> x, y |-> y, z |-> z, id |-> cubby_id,
      depth |-> IF z # EMPTY_SPACE_MARKER THEN -1 * (MarkerFind(z) + 1) ELSE NoneDepth,
      mine |-> z # EMPTY_SPACE_MARKER,
      mine_passed |-> FALSE,
      north |-> NoneRef, south |-> NoneRef, east |-> NoneRef, west |-> NoneRef ]

\* Cubby.destroy_mine testing the symbol alone, not the mine flag
destroy_mine_returns_ignoring_flag(c) == c.z # MINE_PASSED_MARKER

\* Cubby.destroy_mine testing the mine flag alone, not the passed marker
destroy_mine_returns_ignoring_passed(c) == c.mine = TRUE

\* what Cubby.destroy_mine returns
destroy_mine_returns(c) == c.mine = TRUE /\ c.z # MINE_PASSED_MARKER

\* Cubby.destroy_mine clearing the symbol and depth but not the mine flag
destroy_mine_keeping_flag(c) ==
    IF destroy_mine_returns(c)
    THEN [c EXCEPT !.z = EMPTY_SPACE_MARKER, !.depth = NoneDepth]
    ELSE c

\* the Cubby after Cubby.destroy_mine
destroy_mine(c) ==
    IF destroy_mine_returns(c)
    THEN [c EXCEPT !.mine = FALSE, !.z = EMPTY_SPACE_MARKER, !.depth = NoneDepth]
    ELSE c

\* Cubby.update_depth taking the marker one place too far
update_depth_one_off(c) ==
    LET z == MarkerAt(-c.depth - 3) IN
    IF z = MINE_PASSED_MARKER
    THEN [c EXCEPT !.z = z, !.mine_passed = TRUE]
    ELSE [c EXCEPT !.z = z, !.depth = c.depth + 1]

\* the Cubby after Cubby.update_depth (c.depth is a number)
update_depth(c) ==
    LET z == MarkerAt(-c.depth - 2) IN
    IF z = MINE_PASSED_MARKER
    THEN [c EXCEPT !.z = z, !.mine_passed = TRUE]
    ELSE [c EXCEPT !.z = z, !.depth = c.depth + 1]

\* getattr(c, direction) for a direction word
getattr(c, direction) ==
    CASE direction = NORTH -> c.north
      [] direction = SOUTH -> c.south
      [] direction = EAST -> c.east
      [] direction = WEST -> c.west

\* Cubby.mine_location
mine_location(c) == <<c.x, c.y, c.id>>

\* ----------------------------------------------------------------- Cuboid
RECURSIVE RowStart(_, _)
\* the id of the first Cubby of row r (1-based): cubby_id counts row by row
RowStart(fields, r) ==
    IF r = 1 THEN 0 ELSE RowStart(fields, r - 1) + Len(fields[r - 1])

\* Cuboid.__init__ raises IndexError: matrix[-1][x] for a row longer than the
\* row above it, matrix[0] for a field with no rows
CuboidRaises(fields) ==
    \/ Len(fields) = 0
    \/ \E r \in 2..Len(fields) : Len(fields[r]) > Len(fields[r - 1])

\* Cuboid.matrix: the ids of the Cubbies, row by row
CuboidMatrix(fields) ==
    [r \in 1..Len(fields) |-> [c \in 1..Len(fields[r]) |-> RowStart(fields, r) + c - 1]]

\* the Cubbies linked north to the row above but never south back
CuboidCubbies_without_south(fields) ==
    LET m == CuboidMatrix(fields)
        n == RowStart(fields, Len(fields)) + Len(fields[Len(fields)])
        rowOf(i) == CHOOSE r \in 1..Len(fields) :
                        i >= RowStart(fields, r) /\ i < RowStart(fields, r) + Len(fields[r])
        cell(i) ==
            LET r == rowOf(i)
                c == i - RowStart(fields, r) + 1
                base == Cubby(c - 1, r - 1, fields[r][c], i)
            IN [base EXCEPT
                  !.west = IF c > 1 THEN m[r][c - 1] ELSE NoneRef,
                  !.east = IF c < Len(fields[r]) THEN m[r][c + 1] ELSE NoneRef,
                  !.north = IF r > 1 THEN m[r - 1][c] ELSE NoneRef]
    IN [i \in 0..(n - 1) |-> cell(i)]

\* the Cubbies of the Cuboid, by id, linked as Cuboid.__init__ links them:
\* west/east along the row, north to the row built before, south back
CuboidCubbies(fields) ==
    LET m == CuboidMatrix(fields)
        n == RowStart(fields, Len(fields)) + Len(fields[Len(fields)])
        rowOf(i) == CHOOSE r \in 1..Len(fields) :
                        i >= RowStart(fields, r) /\ i < RowStart(fields, r) + Len(fields[r])
        cell(i) ==
            LET r == rowOf(i)
                c == i - RowStart(fields, r) + 1
                base == Cubby(c - 1, r - 1, fields[r][c], i)
            IN [base EXCEPT
                  !.west = IF c > 1 THEN m[r][c - 1] ELSE NoneRef,
                  !.east = IF c < Len(fields[r]) THEN m[r][c + 1] ELSE NoneRef,
                  !.north = IF r > 1 THEN m[r - 1][c] ELSE NoneRef,
                  !.south = IF r < Len(fields) /\ c <= Len(fields[r + 1])
                            THEN m[r + 1][c] ELSE NoneRef]
    IN [i \in 0..(n - 1) |-> cell(i)]

\* Cuboid.mine_locations after construction: the mines in reading order
CuboidMineLocations(fields) ==
    LET cs == CuboidCubbies(fields)
        n == Cardinality(DOMAIN cs)
        ids == SelectSeq([k \in 1..n |-> k - 1], LAMBDA i : cs[i].z # EMPTY_SPACE_MARKER)
    IN [k \in 1..Len(ids) |-> mine_location(cs[ids[k]])]

\* Cuboid.dimensions
CuboidDimensions(fields) == <<Len(fields), Len(fields[1]), 0>>

\* list.pop(i) for a 0-based index i inside the list
PopAt(s, i) == [k \in 1..(Len(s) - 1) |-> IF k <= i THEN s[k] ELSE s[k + 1]]

\* Cuboid.remove_mine_location popping the head of the list
remove_mine_index_head(ml, mine_id) == 0

\* the index Cuboid.remove_mine_location pops: the first entry of that id,
\* 0 when there is none
remove_mine_index(ml, mine_id) ==
    IF \E k \in 1..Len(ml) : ml[k][3] = mine_id
    THEN (CHOOSE k \in 1..Len(ml) :
            /\ ml[k][3] = mine_id
            /\ \A j \in 1..(k - 1) : ml[j][3] # mine_id) - 1
    ELSE 0

\* Cuboid.remove_mine_location raises IndexError (pop from an empty list)
remove_mine_location_raises(ml, mine_id) == Len(ml) = 0

\* Cuboid.mine_locations after Cuboid.remove_mine_location
remove_mine_location(ml, mine_id) ==
    IF Len(ml) = 0 THEN ml ELSE PopAt(ml, remove_mine_index(ml, mine_id))

\* ------------------------------------------------------------------- Ship
\* Ship.__init__ raises IndexError at self.cuboid.matrix[self.y][self.x]:
\* x is taken from dimensions[0] (the row count), y from dimensions[1]
ShipRaises(m, dims) ==
    \/ dims[2] \div 2 >= Len(m)
    \/ dims[1] \div 2 >= Len(m[(dims[2] \div 2) + 1])

\* Ship._handle_command_line: the (torpedoe, movement) a command line resolves to
handle_command_line(command_line) ==
    LET commands == SelectSeq(command_line, LAMBDA c : c # "") IN
    IF Len(commands) = 2
    THEN << IF commands[1] \in DOMAIN FIRING_PATTERN_MAP THEN commands[1] ELSE NoneStr,
            IF commands[2] \in MovementWords THEN commands[2] ELSE NoneStr >>
    ELSE IF Len(commands) = 1
    THEN IF commands[1] \in MovementWords
         THEN <<NoneStr, commands[1]>>
         ELSE <<commands[1], NoneStr>>
    ELSE <<NoneStr, NoneStr>>

\* Python's truth value of a token: None and "" are false
Truthy(token) == token # NoneStr /\ token # ""

RECURSIVE Walk(_, _, _, _)
\* the hop loop of Ship._handle_torpedoe: follow directions from Cubby temp,
\* stopping at an absent Cubby or at DOWN
Walk(cs, temp, directions, i) ==
    IF i > Len(directions) \/ temp = NoneRef \/ directions[i] = DOWN
    THEN temp
    ELSE Walk(cs, getattr(cs[temp], directions[i]), directions, i + 1)

\* the Cubby one offset of a firing pattern reaches from the ship's Cubby
Target(cs, from, p) == Walk(cs, from, MOVEMENT_MAP_HOPS(p), 1)

\* one offset of a volley: destroy_mine on the target, then remove_mine_location
FireAt(S, p) ==
    LET t == Target(S.cubbies, S.current_cubby, p) IN
    IF S.err # "none" \/ t = NoneRef \/ ~destroy_mine_returns(S.cubbies[t])
    THEN S
    ELSE IF remove_mine_location_raises(S.mine_locations, t)
    THEN [S EXCEPT !.cubbies[t] = destroy_mine(@), !.destroyed_times[t] = @ + 1,
                   !.err = "IndexError"]
    ELSE [S EXCEPT !.cubbies[t] = destroy_mine(@), !.destroyed_times[t] = @ + 1,
                   !.mine_locations = remove_mine_location(@, t)]

RECURSIVE FirePattern_stop_at_absent(_, _, _)
\* the loop over a pattern left at the first offset that reaches no Cubby
FirePattern_stop_at_absent(S, pattern, i) ==
    IF i > Len(pattern) \/ Target(S.cubbies, S.current_cubby, pattern[i]) = NoneRef
    THEN S
    ELSE FirePattern_stop_at_absent(FireAt(S, pattern[i]), pattern, i + 1)

RECURSIVE FirePattern(_, _, _)
\* the offsets of a pattern, in order
FirePattern(S, pattern, i) ==
    IF i > Len(pattern) THEN S ELSE FirePattern(FireAt(S, pattern[i]), pattern, i + 1)

\* Ship._handle_torpedoe
handle_torpedoe(S, torpedoe) ==
    LET S1 == [S EXCEPT !.number_of_vollys_fired = @ + 1] IN
    IF torpedoe \notin DOMAIN FIRING_PATTERN_MAP
    THEN [S1 EXCEPT !.err = "KeyError"]
    ELSE FirePattern(S1, FIRING_PATTERN_MAP[torpedoe], 1)

\* Ship._handle_movement taking the mine of the Cubby it moves onto out of the
\* registry
handle_movement_sweeping(S, movement) ==
    LET v == MOVEMENT_MAP(movement)
        S1 == [S EXCEPT !.number_of_moves_made = IF movement # DOWN THEN @ + 1 ELSE @,
                        !.ship_x = @ + v[1],
                        !.ship_y = @ + v[2]]
    IN
    IF S.current_cubby = NoneRef
    THEN [S1 EXCEPT !.err = "AttributeError"]
    ELSE
      LET next == getattr(S.cubbies[S.current_cubby], movement) IN
      [S1 EXCEPT !.current_cubby = next,
                 !.mine_locations = SelectSeq(@, LAMBDA m : m[3] # next)]

\* Ship._handle_movement
handle_movement(S, movement) ==
    LET v == MOVEMENT_MAP(movement)
        S1 == [S EXCEPT !.number_of_moves_made = IF movement # DOWN THEN @ + 1 ELSE @,
                        !.ship_x = @ + v[1],
                        !.ship_y = @ + v[2]]
    IN
    IF S.current_cubby = NoneRef
    THEN [S1 EXCEPT !.err = "AttributeError"]
    ELSE
      LET next == getattr(S.cubbies[S.current_cubby], movement)
          S2 == IF S.show_ship
                THEN [S1 EXCEPT !.cubbies[S.current_cubby].z = S.previous_cubby_marker]
                ELSE S1
          S3 == [S2 EXCEPT !.current_cubby = next]
      IN
      IF ~S.show_ship THEN S3
      ELSE IF next = NoneRef THEN [S3 EXCEPT !.err = "AttributeError"]
      ELSE [S3 EXCEPT !.previous_cubby_marker = S2.cubbies[next].z,
                      !.cubbies[next].z = SHIP_MARKER]

RECURSIVE DecayFrom(_, _, _)
\* the loop of Cuboid.update_depths over the registry
DecayFrom(cs, ml, k) ==
    IF k > Len(ml) THEN cs
    ELSE DecayFrom([cs EXCEPT ![ml[k][3]] = update_depth(@)], ml, k + 1)

\* Cuboid.update_depths reaching only the first mine of the registry
update_depths_first_only(S) ==
    IF Len(S.mine_locations) = 0 THEN S
    ELSE [S EXCEPT !.cubbies[S.mine_locations[1][3]] = update_depth(@)]

\* Cuboid.update_depths; -None raises TypeError for a registered Cubby without depth
update_depths(S) ==
    IF \E k \in 1..Len(S.mine_locations) : S.cubbies[S.mine_locations[k][3]].depth = NoneDepth
    THEN [S EXCEPT !.err = "TypeError"]
    ELSE [S EXCEPT !.cubbies = DecayFrom(@, S.mine_locations, 1)]

\* Ship._execute_command moving the ship before it fires
execute_command_move_first(S, command_line) ==
    LET tm == handle_command_line(command_line)
        S0 == [S EXCEPT !.ship_z = IF tm[2] # DOWN THEN @ - 1 ELSE @]
        S1 == IF Truthy(tm[2]) THEN handle_movement(S0, tm[2]) ELSE S0
        S2 == IF S1.err = "none" /\ Truthy(tm[1]) THEN handle_torpedoe(S1, tm[1]) ELSE S1
    IN IF S2.err = "none" THEN update_depths(S2) ELSE S2

\* Ship._execute_command with a parse that lowers z only for a movement
execute_command_z_on_movement(S, command_line) ==
    LET tm == handle_command_line(command_line)
        S0 == [S EXCEPT !.ship_z = IF Truthy(tm[2]) THEN @ - 1 ELSE @]
        S1 == IF Truthy(tm[1]) THEN handle_torpedoe(S0, tm[1]) ELSE S0
        S2 == IF S1.err = "none" /\ Truthy(tm[2]) THEN handle_movement(S1, tm[2]) ELSE S1
    IN IF S2.err = "none" THEN update_depths(S2) ELSE S2

\* Ship._execute_command: parse, torpedo, movement, decay
execute_command(S, command_line) ==
    LET tm == handle_command_line(command_line)
        S0 == [S EXCEPT !.ship_z = IF tm[2] # DOWN THEN @ - 1 ELSE @]
        S1 == IF Truthy(tm[1]) THEN handle_torpedoe(S0, tm[1]) ELSE S0
        S2 == IF S1.err = "none" /\ Truthy(tm[2]) THEN handle_movement(S1, tm[2]) ELSE S1
    IN IF S2.err = "none" THEN update_depths(S2) ELSE S2

\* case 4 of Ship.check_score without the cap on the volley penalty
final_score_uncapped_volleys(vollys, moves, initial_mines, start) ==
    LET move_score == moves * 2
        move_max == initial_mines * 3
        final_move_score == IF move_score > move_max THEN move_max ELSE move_score
    IN start - vollys * 5 - final_move_score

\* the score of case 4 of Ship.check_score
final_score(vollys, moves, initial_mines, start) ==
    LET volly_score == vollys * 5
        volly_max == initial_mines * 5
        final_volly_score == IF volly_score > volly_max THEN volly_max ELSE volly_score
        move_score == moves * 2
        move_max == initial_mines * 3
        final_move_score == IF move_score > move_max THEN move_max ELSE move_score
    IN start - final_volly_score - final_move_score

\* Ship.check_score without case 1 (a passed mine)
check_score_without_passed(cs, ml, commands_left, vollys, moves, initial_mines, start) ==
    IF commands_left = 0 /\ Len(ml) # 0
    THEN <<FAIL, 0>>
    ELSE IF commands_left # 0 /\ Len(ml) = 0
    THEN <<PASS, 1>>
    ELSE IF commands_left = 0 /\ Len(ml) = 0
    THEN <<PASS, final_score(vollys, moves, initial_mines, start)>>
    ELSE <<NoneStr, -1>>

\* Ship.check_score without case 2 (script over, mines left)
check_score_without_remaining(cs, ml, commands_left, vollys, moves, initial_mines, start) ==
    IF \E k \in 1..Len(ml) : cs[ml[k][3]].mine_passed = TRUE
    THEN <<FAIL, 0>>
    ELSE IF commands_left # 0 /\ Len(ml) = 0
    THEN <<PASS, 1>>
    ELSE IF commands_left = 0 /\ Len(ml) = 0
    THEN <<PASS, final_score(vollys, moves, initial_mines, start)>>
    ELSE <<NoneStr, -1>>

\* Ship.check_score scoring case 3 (an early clear) by the formula of case 4
check_score_early_by_formula(cs, ml, commands_left, vollys, moves, initial_mines, start) ==
    IF \E k \in 1..Len(ml) : cs[ml[k][3]].mine_passed = TRUE
    THEN <<FAIL, 0>>
    ELSE IF commands_left = 0 /\ Len(ml) # 0
    THEN <<FAIL, 0>>
    ELSE IF Len(ml) = 0
    THEN <<PASS, final_score(vollys, moves, initial_mines, start)>>
    ELSE <<NoneStr, -1>>

\* Ship.check_score without case 4 (script over, field cleared)
check_score_without_exhausted_clear(cs, ml, commands_left, vollys, moves, initial_mines, start) ==
    IF \E k \in 1..Len(ml) : cs[ml[k][3]].mine_passed = TRUE
    THEN <<FAIL, 0>>
    ELSE IF commands_left = 0 /\ Len(ml) # 0
    THEN <<FAIL, 0>>
    ELSE IF commands_left # 0 /\ Len(ml) = 0
    THEN <<PASS, 1>>
    ELSE <<NoneStr, -1>>

\* Ship.check_score: (pass_fail, score), (None, -1) while the run goes on
check_score(cs, ml, commands_left, vollys, moves, initial_mines, start) ==
    IF \E k \in 1..Len(ml) : cs[ml[k][3]].mine_passed = TRUE
    THEN <<FAIL, 0>>
    ELSE IF commands_left = 0 /\ Len(ml) # 0
    THEN <<FAIL, 0>>
    ELSE IF commands_left # 0 /\ Len(ml) = 0
    THEN <<PASS, 1>>
    ELSE IF commands_left = 0 /\ Len(ml) = 0
    THEN <<PASS, final_score(vollys, moves, initial_mines, start)>>
    ELSE <<NoneStr, -1>>

\* Ship.radar raises AttributeError when the ship has no Cubby (ship.x of None)
radar_raises(cc) == cc = NoneRef

SetMin(S) == CHOOSE a \in S : \A b \in S : a <= b

SetMax(S) == CHOOSE a \in S : \A b \in S : a >= b

Abs(n) == IF n < 0 THEN -n ELSE n

\* Python's s[lo:hi] for 0 <= lo
Slice(s, lo, hi) == SubSeq(s, lo + 1, IF hi < Len(s) THEN hi ELSE Len(s))

\* Cuboid.find_element_bounds: the smallest and largest x and y among the
\* registered mines and the Cubby of the ship
find_element_bounds(cs, ml, ship) ==
    LET xs == {ml[k][1] : k \in 1..Len(ml)} \cup {cs[ship].x}
        ys == {ml[k][2] : k \in 1..Len(ml)} \cup {cs[ship].y}
    IN [x_min |-> SetMin(xs), x_max |-> SetMax(xs), y_min |-> SetMin(ys), y_max |-> SetMax(ys)]

RECURSIVE ShiftLoop(_, _, _, _, _)
\* the loop of Cuboid.calculate_shift over the registry: the largest |offset|
\* on each axis and the sign of the first mine that reaches it
ShiftLoop(ml, ship_cx, ship_cy, k, a) ==
    IF k > Len(ml) THEN a
    ELSE
      LET tx == ml[k][1] - ship_cx
          ty == ml[k][2] - ship_cy
          a1 == IF Abs(tx) > a.x
                THEN [a EXCEPT !.x = Abs(tx), !.xs = IF tx < 0 THEN "-" ELSE "+"]
                ELSE a
          a2 == IF Abs(ty) > a1.y
                THEN [a1 EXCEPT !.y = Abs(ty), !.ys = IF ty < 0 THEN "-" ELSE "+"]
                ELSE a1
      IN ShiftLoop(ml, ship_cx, ship_cy, k + 1, a2)

\* Cuboid.calculate_shift with a canvas of one more than the largest offset
calculate_shift_half_canvas(cs, ml, ship) ==
    LET a == ShiftLoop(ml, cs[ship].x, cs[ship].y, 1, [x |-> 0, y |-> 0, xs |-> "", ys |-> ""])
    IN [shift |-> a.xs \o a.ys, dimension |-> <<a.x + 1, a.y + 1>>]

\* Cuboid.calculate_shift: the shift code and the (columns, rows) of the canvas
calculate_shift(cs, ml, ship) ==
    LET a == ShiftLoop(ml, cs[ship].x, cs[ship].y, 1, [x |-> 0, y |-> 0, xs |-> "", ys |-> ""])
    IN [shift |-> a.xs \o a.ys, dimension |-> <<a.x * 2 + 1, a.y * 2 + 1>>]

\* the start offsets of radar with the one-sign codes anchored like the empty code
radar_starts_one_sign_at_origin(shift, blank_rows, blank_cols, sub_rows, sub_cols) ==
    CASE shift = "++" -> <<blank_rows - sub_rows, blank_cols - sub_cols>>
      [] shift \in {"--", "-", "+", ""} -> <<0, 0>>
      [] shift = "+-" -> <<0, blank_cols - sub_cols>>
      [] shift = "-+" -> <<blank_rows - sub_rows, 0>>

\* (y_start, x_start) of Ship.radar: where the sub-region goes in the canvas
radar_starts(shift, blank_rows, blank_cols, sub_rows, sub_cols) ==
    CASE shift \in {"++", "+"} -> <<blank_rows - sub_rows, blank_cols - sub_cols>>
      [] shift \in {"--", "-", ""} -> <<0, 0>>
      [] shift = "+-" -> <<0, blank_cols - sub_cols>>
      [] shift = "-+" -> <<blank_rows - sub_rows, 0>>

\* Python's list index: a negative index counts from the end
PyIndex(i, n) == IF i < 0 THEN i + n ELSE i

\* Ship.radar: the canvas, the sub-region, where it is copied and the frame
\* that results (rows of symbols); IndexError for a write outside the canvas
radar(cs, m, ml, cc) ==
    LET b == find_element_bounds(cs, ml, cc)
        s == calculate_shift(cs, ml, cc)
        rows == Abs(s.dimension[2])
        cols == Abs(s.dimension[1])
        band == Slice(m, b.y_min, b.y_max + 1)
        sub == [i \in 1..Len(band) |-> Slice(band[i], b.x_min, b.x_max + 1)]
        st == radar_starts(s.shift, rows, cols, Len(sub), Len(sub[1]))
        writes == {w \in (1..Len(sub)) \X (1..Len(sub[1])) : w[2] <= Len(sub[w[1]])}
        target(w) == <<PyIndex(st[1] + w[1] - 1, rows), PyIndex(st[2] + w[2] - 1, cols)>>
        inside(t) == t[1] >= 0 /\ t[1] < rows /\ t[2] >= 0 /\ t[2] < cols
        symbol(r, c) ==
            LET hits == {w \in writes : target(w) = <<r - 1, c - 1>>} IN
            IF hits = {} THEN "."
            ELSE LET w == CHOOSE w \in hits :
                            \A v \in hits : v[1] < w[1] \/ (v[1] = w[1] /\ v[2] <= w[2])
                 IN cs[sub[w[1]][w[2]]].z
    IN [ blank_rows |-> rows, blank_cols |-> cols,
         sub_rows |-> Len(sub), sub_cols |-> Len(sub[1]),
         y_start |-> st[1], x_start |-> st[2], shift |-> s.shift, bounds |-> b,
         err |-> IF \A w \in writes : inside(target(w)) THEN "none" ELSE "IndexError",
         frame |-> [r \in 1..rows |-> [c \in 1..cols |-> symbol(r, c)]] ]

\* ----------------------------------------------------------------- inputs
\* the symbols of a field: empty space and the mine letters
FieldSymbols == {EMPTY_SPACE_MARKER} \cup FieldLetters

MineCount(f) ==
    Cardinality({rc \in (DOMAIN f) \X (DOMAIN f[1]) : f[rc[1]][rc[2]] # EMPTY_SPACE_MARKER})

\* the rectangular fields of a width and height with at most MaxMines mines
Fields(w, h) == {f \in [1..h -> [1..w -> FieldSymbols]] : MineCount(f) <= MaxMines}

\* the lines of a script, as str.split(' ') cuts them
CommandLines ==
    { <<"">>,
      <<NORTH>>, <<SOUTH>>, <<EAST>>, <<WEST>>,
      <<ALPHA>>, <<BETA>>, <<GAMMA>>, <<DELTA>>,
      <<GAMMA, NORTH>>, <<DELTA, SOUTH>>, <<BETA, WEST>>, <<ALPHA, "", EAST>>,
      <<NORTH, ALPHA>>, <<"fire">>, <<"fire", NORTH>>, <<GAMMA, "up">>,
      <<ALPHA, NORTH, EAST>> }

\* ------------------------------------------------------------ construction
NoTurn ==
    [torpedoe |-> NoneStr, movement |-> NoneStr]

NoCall ==
    [method |-> NoneStr, cubby |-> NoneRef, returned |-> NoneStr]

\* yewno-new-graph.py has not been started on the field
NoNewGraph ==
    [pc |-> "absent"]

\* Cuboid(field_file), then Ship(cuboid, script_file) for a script of n lines
Construct(f, n) ==
    /\ field = f
    /\ matrix = CuboidMatrix(f)
    /\ dimensions = CuboidDimensions(f)
    /\ cubbies = CuboidCubbies(f)
    /\ mine_locations = CuboidMineLocations(f)
    /\ ship_x = dimensions[1] \div 2
    /\ ship_y = dimensions[2] \div 2
    /\ ship_z = 0
    /\ show_ship = FALSE
    /\ previous_cubby_marker = NoneStr
    /\ number_of_moves_made = 0
    /\ number_of_vollys_fired = 0
    /\ step_count = 0
    /\ verdict = <<NoneStr, -1>>
    /\ last = NoTurn
    /\ call = NoCall
    /\ ng = NoNewGraph
    /\ destroyed_times = [i \in DOMAIN cubbies |-> 0]
    /\ IF ShipRaises(matrix, dimensions)
       THEN /\ current_cubby = NoneRef
            /\ number_of_initial_mines = 0
            /\ number_of_commands_left = 0
            /\ starting_score = 0
            /\ pc = "crashed"
            /\ err = "IndexError"
       ELSE /\ current_cubby = matrix[ship_y + 1][ship_x + 1]
            /\ number_of_initial_mines = Len(mine_locations)
            /\ number_of_commands_left = n
            /\ starting_score = 10 * number_of_initial_mines
            /\ pc = "loop"
            /\ err = "none"

Init ==
    \E d \in FieldDims : \E f \in Fields(d[1], d[2]) : \E n \in 0..MaxScript :
        Construct(f, n)

\* ---------------------------------------------------------------- actions
\* the Ship and Cuboid fields a turn works on
ShipState ==
    [ cubbies |-> cubbies, mine_locations |-> mine_locations,
      ship_x |-> ship_x, ship_y |-> ship_y, ship_z |-> ship_z,
      current_cubby |-> current_cubby, show_ship |-> show_ship,
      previous_cubby_marker |-> previous_cubby_marker,
      number_of_moves_made |-> number_of_moves_made,
      number_of_vollys_fired |-> number_of_vollys_fired,
      destroyed_times |-> destroyed_times, err |-> "none" ]

\* the loop going on to the next command line whatever check_score returned
AfterTurn_without_break(e, v) ==
    IF e # "none" THEN "crashed" ELSE "loop"

\* where the loop stands after a turn that ended in e and was scored v: an
\* exception ends the run, a verdict breaks the loop
AfterTurn(e, v) ==
    IF e # "none" THEN "crashed"
    ELSE IF v[1] # NoneStr THEN "done" ELSE "loop"

\* one pass of the loop of Ship.execute_command_scrip_file over a command line:
\* commands_left, radar, _execute_command, check_score, radar, break on a verdict
execute_command_turn(command_line) ==
    /\ pc = "loop"
    /\ number_of_commands_left > 0
    /\ \E S \in { IF radar_raises(current_cubby)
                  THEN [ShipState EXCEPT !.err = "AttributeError"]
                  ELSE execute_command(ShipState, command_line) } :
       LET left == number_of_commands_left - 1
           tm == handle_command_line(command_line)
           v == check_score(S.cubbies, S.mine_locations, left,
                            S.number_of_vollys_fired, S.number_of_moves_made,
                            number_of_initial_mines, starting_score)
           e == IF S.err # "none" THEN S.err
                ELSE IF radar_raises(S.current_cubby) THEN "AttributeError"
                ELSE "none"
       IN
       /\ number_of_commands_left' = left
       /\ step_count' = step_count + 1
       /\ cubbies' = S.cubbies
       /\ mine_locations' = S.mine_locations
       /\ ship_x' = S.ship_x
       /\ ship_y' = S.ship_y
       /\ ship_z' = S.ship_z
       /\ current_cubby' = S.current_cubby
       /\ previous_cubby_marker' = S.previous_cubby_marker
       /\ number_of_moves_made' = S.number_of_moves_made
       /\ number_of_vollys_fired' = S.number_of_vollys_fired
       /\ verdict' = IF S.err = "none" THEN v ELSE verdict
       /\ err' = e
       /\ pc' = AfterTurn(e, v)
       /\ last' = [torpedoe |-> tm[1], movement |-> tm[2]]
       /\ destroyed_times' = S.destroyed_times
    /\ UNCHANGED <<field, matrix, dimensions, show_ship, number_of_initial_mines,
                   starting_score, call>>

\* one turn of yewno.py run on its own
Turn(command_line) ==
    /\ execute_command_turn(command_line)
    /\ UNCHANGED ng

\* the loop of Ship.execute_command_scrip_file ends: no command line is left
Finish ==
    /\ pc = "loop"
    /\ number_of_commands_left = 0
    /\ pc' = "done"
    /\ UNCHANGED <<field, matrix, dimensions, cubbies, mine_locations, ship_x,
                   ship_y, ship_z, current_cubby, show_ship, previous_cubby_marker,
                   number_of_moves_made, number_of_vollys_fired,
                   number_of_initial_mines, number_of_commands_left,
                   starting_score, step_count, err, verdict, last, call,
                   destroyed_times, ng>>

Next ==
    \/ \E command_line \in CommandLines : Turn(command_line)
    \/ Finish

Spec == Init /\ [][Next]_vars

\* ------------------------------------------------- fields of one letter
\* the fields on which the geometry of the grid, of the patterns and of the
\* radar is checked: the letter of a mine plays no part in it
\* the symbols of these fields
GridSymbols == {EMPTY_SPACE_MARKER, "c"}

\* the rectangular fields of these symbols with at most MaxMines mines
GridFields(w, h) == {f \in [1..h -> [1..w -> GridSymbols]] : MineCount(f) <= MaxMines}

InitGrid ==
    \E d \in FieldDims : \E f \in GridFields(d[1], d[2]) : \E n \in 0..MaxScript :
        Construct(f, n)

\* the lines of the scripts run on these fields: every pattern, every
\* direction, both, neither
GridCommandLines ==
    { <<"">>,
      <<NORTH>>, <<SOUTH>>, <<EAST>>, <<WEST>>,
      <<ALPHA>>, <<BETA>>, <<GAMMA>>, <<DELTA>>,
      <<ALPHA, NORTH>>, <<BETA, WEST>>, <<GAMMA, EAST>>, <<DELTA, SOUTH>> }

NextGrid ==
    \/ \E command_line \in GridCommandLines : Turn(command_line)
    \/ Finish

SpecGrid == InitGrid /\ [][NextGrid]_vars

\* ------------------------------------------- long decays on a one-cell field
\* the lines of the scripts of SpecDeep
DeepCommandLines == { <<"">>, <<GAMMA>> }

\* a field of one Cubby carrying any of the 52 letters, and a script of up to
\* one line per marker
InitDeep ==
    \E letter \in {ascii_letters[i] : i \in 1..Len(ascii_letters)} :
        \E n \in 0..Len(MINE_MARKERS) : Construct(<< <<letter>> >>, n)

NextDeep ==
    \/ \E command_line \in DeepCommandLines : Turn(command_line)
    \/ Finish

SpecDeep == InitDeep /\ [][NextDeep]_vars

\* ------------------------------------------ direct calls of Cubby's methods
\* what the calls leave alone
CallFrame ==
    UNCHANGED <<field, matrix, dimensions, mine_locations, ship_x, ship_y, ship_z,
                current_cubby, show_ship, previous_cubby_marker,
                number_of_moves_made, number_of_vollys_fired,
                number_of_initial_mines, number_of_commands_left, starting_score,
                step_count, pc, err, verdict, last, ng>>

\* cubby.destroy_mine() on the Cubby of id i
CallDestroyMine(i) ==
    /\ cubbies' = [cubbies EXCEPT ![i] = destroy_mine(@)]
    /\ call' = [ method |-> "destroy_mine", cubby |-> i,
                 returned |-> IF destroy_mine_returns(cubbies[i]) THEN "True" ELSE "False" ]
    /\ destroyed_times' =
         [destroyed_times EXCEPT ![i] = IF destroy_mine_returns(cubbies[i]) THEN @ + 1 ELSE @]
    /\ CallFrame

\* cubby.update_depth() on the Cubby of id i; -None raises TypeError
CallUpdateDepth(i) ==
    /\ IF cubbies[i].depth = NoneDepth
       THEN /\ cubbies' = cubbies
            /\ call' = [method |-> "update_depth", cubby |-> i, returned |-> "TypeError"]
       ELSE /\ cubbies' = [cubbies EXCEPT ![i] = update_depth(@)]
            /\ call' = [method |-> "update_depth", cubby |-> i, returned |-> NoneStr]
    /\ UNCHANGED destroyed_times
    /\ CallFrame

NextApi ==
    \E i \in DOMAIN cubbies :
        \/ CallDestroyMine(i)
        \/ CallUpdateDepth(i)

\* the (width, height) of the fields whose Cubbies are called directly
ApiDims == {<<1, 1>>, <<2, 2>>, <<3, 2>>}

\* the Cuboids of these fields; no script is involved
InitApi ==
    \E d \in ApiDims : \E f \in Fields(d[1], d[2]) : Construct(f, 0)

SpecApi == InitApi /\ [][NextApi]_vars

\* ------------------------------- direct calls of Cuboid.remove_mine_location
\* cuboid.remove_mine_location(cubby) for the Cubby of id i; pop on an empty
\* list raises IndexError
CallRemoveMineLocation(i) ==
    /\ IF remove_mine_location_raises(mine_locations, i)
       THEN /\ mine_locations' = mine_locations
            /\ call' = [method |-> "remove_mine_location", cubby |-> i,
                        returned |-> "IndexError"]
       ELSE /\ mine_locations' = remove_mine_location(mine_locations, i)
            /\ call' = [method |-> "remove_mine_location", cubby |-> i,
                        returned |-> NoneStr]
    /\ UNCHANGED <<field, matrix, dimensions, cubbies, ship_x, ship_y, ship_z,
                   current_cubby, show_ship, previous_cubby_marker,
                   number_of_moves_made, number_of_vollys_fired,
                   number_of_initial_mines, number_of_commands_left, starting_score,
                   step_count, pc, err, verdict, last, destroyed_times, ng>>

NextRegistry ==
    \E i \in DOMAIN cubbies : CallRemoveMineLocation(i)

SpecRegistry == InitApi /\ [][NextRegistry]_vars

\* ------------------------- direct calls on Cubbies, with the torpedo's last step
\* the last two lines of Ship._handle_torpedoe on the Cubby of id i:
\* if temp_cubby.destroy_mine(): cuboid.remove_mine_location(temp_cubby)
CallTorpedoHit(i) ==
    /\ IF ~destroy_mine_returns(cubbies[i])
       THEN /\ UNCHANGED <<cubbies, mine_locations, destroyed_times>>
            /\ call' = [method |-> "torpedo", cubby |-> i, returned |-> "False"]
       ELSE /\ cubbies' = [cubbies EXCEPT ![i] = destroy_mine(@)]
            /\ destroyed_times' = [destroyed_times EXCEPT ![i] = @ + 1]
            /\ IF remove_mine_location_raises(mine_locations, i)
               THEN /\ mine_locations' = mine_locations
                    /\ call' = [method |-> "torpedo", cubby |-> i, returned |-> "IndexError"]
               ELSE /\ mine_locations' = remove_mine_location(mine_locations, i)
                    /\ call' = [method |-> "torpedo", cubby |-> i, returned |-> "True"]
    /\ UNCHANGED <<field, matrix, dimensions, ship_x, ship_y, ship_z,
                   current_cubby, show_ship, previous_cubby_marker,
                   number_of_moves_made, number_of_vollys_fired,
                   number_of_initial_mines, number_of_commands_left, starting_score,
                   step_count, pc, err, verdict, last, ng>>

NextPassed ==
    \E i \in DOMAIN cubbies :
        \/ CallDestroyMine(i)
        \/ CallUpdateDepth(i)
        \/ CallTorpedoHit(i)

SpecPassed == InitApi /\ [][NextPassed]_vars

\* ------------------------------------------- fields of any shape of rows
\* the row lengths of the field files read here: none at all, rectangles wider
\* than high and higher than wide, rows that get shorter, rows that get longer
FieldShapes ==
    { <<>>, <<1>>, <<1, 1>>, <<2, 2>>, <<3, 3, 3, 3>>, <<3, 3>>,
      <<3, 2>>, <<2, 1>>, <<3, 3, 2>>, <<1, 2>>, <<2, 3>> }

\* the symbols of these fields
ShapeSymbols == {EMPTY_SPACE_MARKER, "c"}

\* the number of mines of a field whose rows may differ in length
ShapeMineCount(f) ==
    Cardinality({rc \in (DOMAIN f) \X (1..3) :
                    rc[2] <= Len(f[rc[1]]) /\ f[rc[1]][rc[2]] # EMPTY_SPACE_MARKER})

\* the fields of a shape: the stripped, non-empty lines of a field file
ShapedFields(shape) ==
    { f \in [1..Len(shape) -> UNION {[1..shape[r] -> ShapeSymbols] : r \in 1..Len(shape)}] :
        /\ \A r \in 1..Len(shape) : Len(f[r]) = shape[r]
        /\ ShapeMineCount(f) <= MaxMines }

\* Cuboid.__init__ raised IndexError: no Cuboid and no Ship exist
CuboidFailed(f) ==
    /\ field = f
    /\ matrix = <<>>
    /\ dimensions = <<0, 0, 0>>
    /\ cubbies = <<>>
    /\ mine_locations = <<>>
    /\ ship_x = 0
    /\ ship_y = 0
    /\ ship_z = 0
    /\ current_cubby = NoneRef
    /\ show_ship = FALSE
    /\ previous_cubby_marker = NoneStr
    /\ number_of_moves_made = 0
    /\ number_of_vollys_fired = 0
    /\ number_of_initial_mines = 0
    /\ number_of_commands_left = 0
    /\ starting_score = 0
    /\ step_count = 0
    /\ pc = "crashed"
    /\ err = "IndexError"
    /\ verdict = <<NoneStr, -1>>
    /\ last = NoTurn
    /\ call = NoCall
    /\ ng = NoNewGraph
    /\ destroyed_times = <<>>

\* the lines of the scripts run on these fields
ShapeCommandLines ==
    { <<"">>, <<GAMMA>>, <<DELTA>>, <<BETA, SOUTH>>, <<ALPHA, EAST>>, <<NORTH>>, <<WEST>> }

InitShapes ==
    \E shape \in FieldShapes : \E f \in ShapedFields(shape) :
        IF CuboidRaises(f)
        THEN CuboidFailed(f)
        ELSE \E n \in 0..MaxScript : Construct(f, n)

NextShapes ==
    \/ \E command_line \in ShapeCommandLines : Turn(command_line)
    \/ Finish

SpecShapes == InitShapes /\ [][NextShapes]_vars

\* ------------------------------------------------------------ vocabulary
\* the ids of the Cubbies in the active registry
RegIds(ml) == {ml[k][3] : k \in 1..Len(ml)}

\* a mine's rank: the position of its symbol in MINE_MARKERS (0 = passed)
Rank(c) == MarkerFind(c.z)

\* the symbol the field gave the Cubby of id i
InitialSymbol(i) == field[cubbies[i].y + 1][cubbies[i].x + 1]

\* some turn has run to its end: the command was executed and scored
TurnCompleted == step_count > 0 /\ err = "none"

\* this step is a turn that ran to its end
TurnStep == step_count' = step_count + 1 /\ err' = "none"

Min(a, b) == IF a < b THEN a ELSE b

\* what check_score returns on the present state
ScoreNow ==
    check_score(cubbies, mine_locations, number_of_commands_left,
                number_of_vollys_fired, number_of_moves_made,
                number_of_initial_mines, starting_score)

\* ----------------------------------------------------------------- claims
\* C1 (passed overrides all): after a completed turn that leaves a passed mine
\* in the active registry, check_score has returned (fail, 0) and the loop was
\* left, however many commands remain and whatever else the turn destroyed.
C1_PassedOverridesAll ==
    (TurnCompleted /\ \E i \in RegIds(mine_locations) : cubbies[i].mine_passed)
        => (verdict = <<FAIL, 0>> /\ pc = "done")

\* the first turn destroyed one of two mines and let the other pass, with
\* commands still left
C1_Witness ==
    /\ TurnCompleted
    /\ step_count = 1
    /\ number_of_commands_left > 0
    /\ number_of_initial_mines = 2
    /\ Len(mine_locations) = 1
    /\ cubbies[mine_locations[1][3]].mine_passed
    /\ verdict = <<FAIL, 0>>

\* the 1-indexed position of a letter in the alphabet (a = 1 ... Z = 52)
AlphabetPosition(z) == CHOOSE r \in 1..Len(ascii_letters) : ascii_letters[r] = z

\* C2 (rank equals turns-to-pass): a mine whose initial letter has alphabet
\* position r and that was never destroyed is not passed after fewer than r
\* completed turns, and is passed, with symbol '*', after exactly r.
C2_RankEqualsTurnsToPass ==
    err = "none" =>
        \A i \in DOMAIN cubbies :
            (InitialSymbol(i) # EMPTY_SPACE_MARKER /\ cubbies[i].mine) =>
                LET r == AlphabetPosition(InitialSymbol(i)) IN
                /\ step_count <= r
                /\ step_count < r =>
                      (~cubbies[i].mine_passed /\ cubbies[i].z # MINE_PASSED_MARKER)
                /\ step_count = r =>
                      (cubbies[i].mine_passed /\ cubbies[i].z = MINE_PASSED_MARKER)

\* the mine "Z" has passed at the end of turn 52
C2_Witness ==
    /\ field = << <<"Z">> >>
    /\ step_count = 52
    /\ err = "none"
    /\ cubbies[0].mine
    /\ cubbies[0].mine_passed
    /\ cubbies[0].z = MINE_PASSED_MARKER

\* C3 (monotonic decay): in every completed turn, whatever its command, each
\* mine that ends the turn in the registry and was not passed loses exactly one
\* rank; a cell without a mine (destroyed or empty) and a passed mine keep their
\* symbol and depth.
C3_MonotonicDecay ==
    [][TurnStep =>
        \A i \in DOMAIN cubbies :
            /\ (i \in RegIds(mine_locations') /\ ~cubbies[i].mine_passed) =>
                  Rank(cubbies'[i]) = Rank(cubbies[i]) - 1
            /\ ~cubbies[i].mine =>
                  (cubbies'[i].z = cubbies[i].z /\ cubbies'[i].depth = cubbies[i].depth)
            /\ cubbies[i].mine_passed =>
                  (cubbies'[i].z = cubbies[i].z /\ cubbies'[i].depth = cubbies[i].depth)
    ]_vars

\* after two turns a "c" mine shows "a" while another mine's cell stays destroyed
C3_Witness ==
    /\ TurnCompleted
    /\ step_count = 2
    /\ \E i \in RegIds(mine_locations) :
          InitialSymbol(i) = "c" /\ cubbies[i].z = "a" /\ ~cubbies[i].mine_passed
    /\ \E j \in DOMAIN cubbies :
          /\ InitialSymbol(j) # EMPTY_SPACE_MARKER
          /\ ~cubbies[j].mine
          /\ cubbies[j].z = EMPTY_SPACE_MARKER

\* C4 (exhaustive-clear formula): a turn that ends with no command left and an
\* empty registry is scored pass with 10N - min(5 volleys, 5N) - min(2 moves, 3N),
\* N the initial mine count; that score is at least 2N and never negative.
C4_ExhaustiveClearFormula ==
    (TurnCompleted /\ number_of_commands_left = 0 /\ Len(mine_locations) = 0) =>
        LET N == number_of_initial_mines
            score == 10 * N - Min(5 * number_of_vollys_fired, 5 * N)
                            - Min(2 * number_of_moves_made, 3 * N)
        IN /\ verdict = <<PASS, score>>
           /\ score >= 2 * N
           /\ score >= 0

\* one mine cleared on the last command after more volleys and moves than the
\* caps count: 10 - 5 - 3
C4_Witness ==
    /\ TurnCompleted
    /\ number_of_commands_left = 0
    /\ Len(mine_locations) = 0
    /\ number_of_initial_mines = 1
    /\ number_of_vollys_fired > 1
    /\ number_of_moves_made > 1
    /\ verdict = <<PASS, 2>>

\* C5 (early-clear bonus): a turn that ends with a command left and an empty
\* registry is scored pass 1, whatever the volleys, moves and initial mines.
C5_EarlyClearBonus ==
    (TurnCompleted /\ number_of_commands_left > 0 /\ Len(mine_locations) = 0) =>
        (verdict = <<PASS, 1>> /\ pc = "done")

\* two mines cleared by the second turn, after volleys and a move, a command left
C5_Witness ==
    /\ TurnCompleted
    /\ number_of_commands_left > 0
    /\ Len(mine_locations) = 0
    /\ number_of_initial_mines = 2
    /\ number_of_vollys_fired = 2
    /\ number_of_moves_made > 0
    /\ verdict = <<PASS, 1>>

\* C6 (script exhausted with mines remaining): with no command left and a mine
\* in the registry check_score evaluates to (fail, 0), from construction on for
\* an empty script, and that is what a turn ending so was scored.
C6_ScriptExhaustedMinesRemain ==
    (err = "none" /\ number_of_commands_left = 0 /\ Len(mine_locations) # 0) =>
        /\ ScoreNow = <<FAIL, 0>>
        /\ step_count > 0 => verdict = <<FAIL, 0>>

\* field "a" with an empty script: no turn, one mine, not passed
C6_Witness ==
    /\ field = << <<"a">> >>
    /\ step_count = 0
    /\ number_of_commands_left = 0
    /\ Len(mine_locations) = 1
    /\ ~cubbies[0].mine_passed
    /\ pc = "done"
    /\ ScoreNow = <<FAIL, 0>>

\* C7 (idempotent destruction): destroy_mine on a Cubby with a mine that has not
\* passed returns True, for the first time on that Cubby, and empties it (mine
\* False, symbol '.'); on a Cubby it has destroyed before, and on a Cubby that
\* never was a mine, it returns False and changes nothing; no call touches
\* another Cubby.
C7_IdempotentDestruction ==
    [][\A i \in DOMAIN cubbies :
        CallDestroyMine(i) =>
            /\ (cubbies[i].mine /\ cubbies[i].z # MINE_PASSED_MARKER) =>
                  /\ call'.returned = "True"
                  /\ destroyed_times[i] = 0
                  /\ ~cubbies'[i].mine
                  /\ cubbies'[i].z = EMPTY_SPACE_MARKER
            /\ destroyed_times[i] > 0 =>
                  /\ call'.returned = "False"
                  /\ cubbies'[i] = cubbies[i]
                  /\ ~cubbies[i].mine
                  /\ cubbies[i].z = EMPTY_SPACE_MARKER
            /\ InitialSymbol(i) = EMPTY_SPACE_MARKER =>
                  /\ call'.returned = "False"
                  /\ cubbies'[i] = cubbies[i]
            /\ \A j \in DOMAIN cubbies : j # i => cubbies'[j] = cubbies[j]
    ]_vars

\* destroy_mine was called again on a Cubby it had destroyed
C7_Witness ==
    \E i \in DOMAIN cubbies :
        /\ call = [method |-> "destroy_mine", cubby |-> i, returned |-> "False"]
        /\ destroyed_times[i] = 1
        /\ InitialSymbol(i) # EMPTY_SPACE_MARKER
        /\ ~cubbies[i].mine
        /\ cubbies[i].z = EMPTY_SPACE_MARKER

\* the registry without the entries of the Cubbies in gone, order kept
Without(ml, gone) == SelectSeq(ml, LAMBDA m : m[3] \notin gone)

\* C8 (destroyed is permanent): the turn whose volley destroys mines takes
\* exactly their entries out of the registry; a Cubby outside the registry
\* never enters it, and a Cubby without a mine is not decayed and is not passed.
C8_DestroyedIsPermanent ==
    [][step_count' = step_count + 1 =>
        LET destroyed == {i \in DOMAIN cubbies : cubbies[i].mine /\ ~cubbies'[i].mine} IN
        /\ mine_locations' = Without(mine_locations, destroyed)
        /\ destroyed \subseteq RegIds(mine_locations)
        /\ \A i \in DOMAIN cubbies :
              /\ i \notin RegIds(mine_locations) => i \notin RegIds(mine_locations')
              /\ ~cubbies[i].mine => cubbies'[i] = cubbies[i]
              /\ ~cubbies'[i].mine => ~cubbies'[i].mine_passed
    ]_vars

\* the second of two mines was destroyed in turn 1, the first is still
\* registered after turn 2
C8_Witness ==
    /\ TurnCompleted
    /\ step_count = 2
    /\ number_of_initial_mines = 2
    /\ Len(mine_locations) = 1
    /\ \E i, j \in DOMAIN cubbies :
          /\ i < j
          /\ mine_locations[1][3] = i
          /\ InitialSymbol(j) # EMPTY_SPACE_MARKER
          /\ ~cubbies[j].mine
          /\ cubbies[j].z = EMPTY_SPACE_MARKER
          /\ ~cubbies[j].mine_passed

\* the Cubbies a volley of a pattern reaches from the Cubby of id from
Targets(cs, from, torpedoe) ==
    {Target(cs, from, FIRING_PATTERN_MAP[torpedoe][k]) :
        k \in 1..Len(FIRING_PATTERN_MAP[torpedoe])} \ {NoneRef}

\* C9 (turn ordering): in a turn the torpedo is resolved from the Cubby the ship
\* held before its move and destroys the mines it reaches there (a rank-1 mine
\* among them is destroyed, not passed); then the ship moves; then every mine
\* still registered decays once; then the turn is scored, so a rank-1 mine the
\* volley missed fails the run in that turn. Field "a" with script ["gamma"]
\* ends pass 5, with script ["beta"] fail 0.
C9_TurnOrdering ==
    [][TurnStep =>
        LET reached == IF Truthy(last'.torpedoe)
                       THEN Targets(cubbies, current_cubby, last'.torpedoe)
                       ELSE {}
            destroyed == {i \in DOMAIN cubbies : cubbies[i].mine /\ ~cubbies'[i].mine}
            scenario(torpedoe) ==
                /\ field = << <<"a">> >>
                /\ step_count' = 1
                /\ number_of_commands_left' = 0
                /\ last' = [torpedoe |-> torpedoe, movement |-> NoneStr]
        IN
        /\ destroyed = {t \in reached : cubbies[t].mine}
        /\ \A i \in destroyed :
              cubbies'[i].z = EMPTY_SPACE_MARKER /\ ~cubbies'[i].mine_passed
        /\ Truthy(last'.movement) =>
              current_cubby' = getattr(cubbies[current_cubby], last'.movement)
        /\ ~Truthy(last'.movement) => current_cubby' = current_cubby
        /\ \A i \in RegIds(mine_locations') : Rank(cubbies'[i]) = Rank(cubbies[i]) - 1
        /\ (\E i \in RegIds(mine_locations') : Rank(cubbies[i]) = 1) =>
              verdict' = <<FAIL, 0>>
        /\ scenario(GAMMA) => verdict' = <<PASS, 5>>
        /\ scenario(BETA) => verdict' = <<FAIL, 0>>
    ]_vars

\* the first turn fired and moved: a rank-1 mine next to the ship's first Cubby
\* was destroyed, and does not lie next to the Cubby the ship moved to
C9_Witness ==
    /\ TurnCompleted
    /\ step_count = 1
    /\ last.torpedoe = BETA
    /\ last.movement = WEST
    /\ \E i \in DOMAIN cubbies :
          /\ InitialSymbol(i) = "a"
          /\ ~cubbies[i].mine
          /\ ~cubbies[i].mine_passed
          /\ i \notin Targets(cubbies, current_cubby, BETA)

\* field "a", script ["gamma"]: pass 5
C9_ScenarioGamma ==
    /\ field = << <<"a">> >>
    /\ step_count = 1
    /\ last = [torpedoe |-> GAMMA, movement |-> NoneStr]
    /\ verdict = <<PASS, 5>>
    /\ pc = "done"

\* field "a", script ["beta"]: fail 0
C9_ScenarioBeta ==
    /\ field = << <<"a">> >>
    /\ step_count = 1
    /\ number_of_commands_left = 0
    /\ last = [torpedoe |-> BETA, movement |-> NoneStr]
    /\ cubbies[0].mine_passed
    /\ verdict = <<FAIL, 0>>

\* C10 (unrecognized tokens are not errors): whatever the command line, the
\* turn raises no error over its tokens, each token that is no torpedo name or
\* direction word resolves to absent, and a volley is counted only for a
\* resolved torpedo.
C10_UnrecognizedTokensAreAbsent ==
    [][step_count' = step_count + 1 =>
        /\ err' # "KeyError"
        /\ last'.torpedoe \in DOMAIN FIRING_PATTERN_MAP \cup {NoneStr}
        /\ last'.movement \in MovementWords \cup {NoneStr}
        /\ number_of_vollys_fired' =
              number_of_vollys_fired
                + (IF last'.torpedoe \in DOMAIN FIRING_PATTERN_MAP THEN 1 ELSE 0)
    ]_vars

\* the Cubby at column x, row y of the grid, absent outside the grid
CellAt(x, y) ==
    IF y >= 0 /\ y < Len(matrix) /\ x >= 0 /\ x < Len(matrix[y + 1])
    THEN matrix[y + 1][x + 1]
    ELSE NoneRef

\* the Cubby an offset p = (dx, dy) of a firing pattern points at from Cubby c:
\* dx columns to the east, dy rows to the north (north is the row above)
OffsetCell(c, p) == CellAt(c.x + p[1], c.y - p[2])

\* the in-grid Cubbies the offsets of a pattern point at from the Cubby of id from
InGridTargets(from, torpedoe) ==
    {OffsetCell(cubbies[from], FIRING_PATTERN_MAP[torpedoe][k]) :
        k \in 1..Len(FIRING_PATTERN_MAP[torpedoe])} \ {NoneRef}

\* C11 (graceful off-edge torpedoes): in a turn that fires one of the four
\* patterns from a grid Cubby, an offset that leaves the grid raises no error and
\* reaches nothing, every mine at an in-grid offset is still destroyed and taken
\* out of the registry, and a Cubby outside the in-grid targets is left as it
\* was but for the decay of the turn (the only error such a turn can end in is
\* the one of a movement that leaves the grid).
C11_GracefulOffEdge ==
    [][(step_count' = step_count + 1 /\ last'.torpedoe \in DOMAIN FIRING_PATTERN_MAP) =>
        LET inGrid == InGridTargets(current_cubby, last'.torpedoe) IN
        /\ current_cubby # NoneRef
        /\ err' \in {"none", "AttributeError"}
        /\ err' = "AttributeError" =>
              (last'.movement \in MovementWords /\ current_cubby' = NoneRef)
        /\ \A i \in inGrid :
              cubbies[i].mine =>
                 /\ ~cubbies'[i].mine
                 /\ cubbies'[i].z = EMPTY_SPACE_MARKER
                 /\ i \notin RegIds(mine_locations')
                 /\ destroyed_times'[i] = destroyed_times[i] + 1
        /\ \A i \in DOMAIN cubbies \ inGrid :
              /\ cubbies'[i] = IF i \in RegIds(mine_locations)
                               THEN update_depth(cubbies[i])
                               ELSE cubbies[i]
              /\ destroyed_times'[i] = destroyed_times[i]
              /\ i \in RegIds(mine_locations) <=> i \in RegIds(mine_locations')
    ]_vars

\* from the south-east corner of a 2 x 2 field a beta volley lost its south and
\* east offsets to the edge; the mine to the north, an offset resolved after
\* the lost south one, was destroyed
C11_Witness ==
    /\ TurnCompleted
    /\ step_count = 1
    /\ last = [torpedoe |-> BETA, movement |-> NoneStr]
    /\ Len(matrix) = 2
    /\ Len(matrix[1]) = 2
    /\ current_cubby = CellAt(1, 1)
    /\ OffsetCell(cubbies[current_cubby], <<0, -1>>) = NoneRef
    /\ OffsetCell(cubbies[current_cubby], <<1, 0>>) = NoneRef
    /\ LET n == OffsetCell(cubbies[current_cubby], <<0, 1>>) IN
          /\ n = CellAt(1, 0)
          /\ InitialSymbol(n) # EMPTY_SPACE_MARKER
          /\ ~cubbies[n].mine
          /\ destroyed_times[n] = 1

\* the rows of the field do not all have the length of the first
Ragged(f) == \E r \in DOMAIN f : Len(f[r]) # Len(f[1])

\* C12 (construction-time validation): for an empty field and for a field
\* whose rows differ in length, construction fails and no turn is run; no grid
\* exists whose rows differ in length or whose inner links are missing.
C12_ConstructionValidates ==
    /\ (field = <<>> \/ Ragged(field)) =>
          (pc = "crashed" /\ step_count = 0 /\ matrix = <<>> /\ cubbies = <<>>)
    /\ ~Ragged(matrix)
    /\ \A i \in DOMAIN cubbies :
          (cubbies[i].y + 1 < Len(matrix)) => cubbies[i].south # NoneRef

\* C13 (initial ship placement): on a rectangular field of width W and height
\* H the Ship is constructed without error at x = W/2, y = H/2, z = 0 (integer
\* halves), and the Cubby it holds is the one at column W/2, row H/2.
C13_InitialShipPlacement ==
    (step_count = 0 /\ field # <<>> /\ ~Ragged(field)) =>
        LET W == Len(field[1])
            H == Len(field)
        IN
        /\ err = "none"
        /\ pc # "crashed"
        /\ ship_x = W \div 2
        /\ ship_y = H \div 2
        /\ ship_z = 0
        /\ current_cubby # NoneRef
        /\ current_cubby = CellAt(W \div 2, H \div 2)

\* a field of 3 columns and 4 rows: the Ship starts at x = 2, y = 1, on the
\* Cubby of column 2, row 1
C13_SwappedOnThreeByFour ==
    /\ step_count = 0
    /\ Len(field) = 4
    /\ ~Ragged(field)
    /\ Len(field[1]) = 3
    /\ err = "none"
    /\ ship_x = 2
    /\ ship_y = 1
    /\ current_cubby = CellAt(2, 1)

\* C14 (halt at first verdict): each turn takes the next command line (one
\* more step, one command less left), and once check_score has returned pass or
\* fail nothing changes any more: not the grid, the registry, the ship's
\* position or Cubby, nor any counter, commands_left included.
C14_HaltAtFirstVerdict ==
    [][/\ step_count' # step_count =>
             /\ step_count' = step_count + 1
             /\ number_of_commands_left' = number_of_commands_left - 1
             /\ verdict[1] = NoneStr
       /\ verdict[1] \in {PASS, FAIL} =>
             UNCHANGED <<cubbies, mine_locations, ship_x, ship_y, ship_z, current_cubby,
                         number_of_moves_made, number_of_vollys_fired,
                         number_of_commands_left, step_count, verdict, last,
                         destroyed_times>>
    ]_vars

\* the first turn of a script of several lines cleared the field: pass 1, the
\* loop was left with command lines still unread
C14_Witness ==
    /\ pc = "done"
    /\ step_count = 1
    /\ verdict = <<PASS, 1>>
    /\ number_of_commands_left >= 2
    /\ number_of_initial_mines > 0
    /\ Len(mine_locations) = 0
    /\ ~ENABLED Next

\* C15 (remove_mine_location is a no-op when not found): a call with a Cubby
\* that has no entry in the registry leaves the registry as it was and raises
\* no error, whether the registry is empty or not.
C15_RemoveNotFoundIsNoOp ==
    [][\A i \in DOMAIN cubbies :
        (CallRemoveMineLocation(i) /\ i \notin RegIds(mine_locations)) =>
            /\ mine_locations' = mine_locations
            /\ call'.returned # "IndexError"
    ]_vars

\* a call with an unregistered Cubby took the first entry out of the registry
C15_HeadPopped ==
    \E i \in DOMAIN cubbies :
        /\ call = [method |-> "remove_mine_location", cubby |-> i, returned |-> NoneStr]
        /\ InitialSymbol(i) = EMPTY_SPACE_MARKER
        /\ number_of_initial_mines = 2
        /\ Len(mine_locations) = 1

\* a call on an empty registry raised IndexError
C15_EmptyRaised ==
    /\ call.method = "remove_mine_location"
    /\ call.returned = "IndexError"
    /\ Len(mine_locations) = 0

\* the in-grid Cubbies around the Cubby c that a pattern names: the four
\* diagonal neighbours, the four orthogonal ones, the row of three, the column
\* of three
PatternCells(c, torpedoe) ==
    (CASE torpedoe = ALPHA ->
            { CellAt(c.x - 1, c.y - 1), CellAt(c.x + 1, c.y - 1),
              CellAt(c.x - 1, c.y + 1), CellAt(c.x + 1, c.y + 1) }
       [] torpedoe = BETA ->
            { CellAt(c.x - 1, c.y), CellAt(c.x + 1, c.y),
              CellAt(c.x, c.y - 1), CellAt(c.x, c.y + 1) }
       [] torpedoe = GAMMA ->
            { CellAt(c.x - 1, c.y), CellAt(c.x, c.y), CellAt(c.x + 1, c.y) }
       [] torpedoe = DELTA ->
            { CellAt(c.x, c.y - 1), CellAt(c.x, c.y), CellAt(c.x, c.y + 1) })
    \ {NoneRef}

\* C16 (torpedo target sets): from the Cubby the ship holds when a turn begins,
\* the volley fired reaches exactly the in-grid Cubbies of its pattern (alpha the four
\* diagonal neighbours, beta the four orthogonal ones, gamma west, own, east,
\* delta north, own, south); gamma and delta reach the ship's own Cubby, alpha
\* and beta do not; the mines the turn destroys are the mines among the
\* Cubbies of the pattern fired.
C16_TorpedoTargetSets ==
    [][step_count' = step_count + 1 =>
        /\ current_cubby # NoneRef
        /\ last'.torpedoe \in DOMAIN FIRING_PATTERN_MAP =>
              \E reached \in {Targets(cubbies, current_cubby, last'.torpedoe)} :
                 /\ reached = PatternCells(cubbies[current_cubby], last'.torpedoe)
                 /\ (last'.torpedoe \in {GAMMA, DELTA}) <=> (current_cubby \in reached)
                 /\ {i \in DOMAIN cubbies : destroyed_times'[i] # destroyed_times[i]}
                       = {i \in reached : cubbies[i].mine}
    ]_vars

\* from the centre of a 3 x 3 field a gamma volley destroyed the mine under the
\* ship and left the mine in the north-west corner alone
C16_Witness ==
    /\ TurnCompleted
    /\ step_count = 1
    /\ last.torpedoe = GAMMA
    /\ Len(matrix) = 3
    /\ Len(matrix[1]) = 3
    /\ current_cubby = CellAt(1, 1)
    /\ InitialSymbol(current_cubby) # EMPTY_SPACE_MARKER
    /\ destroyed_times[current_cubby] = 1
    /\ ~cubbies[current_cubby].mine
    /\ cubbies[CellAt(0, 0)].mine
    /\ destroyed_times[CellAt(0, 0)] = 0
    /\ CellAt(0, 0) \in PatternCells(cubbies[current_cubby], ALPHA)

\* C17 (volley and move counters): a turn whose command resolves to one of the
\* four patterns adds exactly one to number_of_vollys_fired, however many mines
\* it destroys, and any other turn leaves it unchanged; a turn with a resolved
\* direction word adds exactly one to number_of_moves_made, and any other turn
\* leaves it unchanged.
C17_VolleyAndMoveCounters ==
    [][step_count' = step_count + 1 =>
        /\ number_of_vollys_fired' =
              IF last'.torpedoe \in DOMAIN FIRING_PATTERN_MAP
              THEN number_of_vollys_fired + 1
              ELSE number_of_vollys_fired
        /\ number_of_moves_made' =
              IF last'.movement \in MovementWords
              THEN number_of_moves_made + 1
              ELSE number_of_moves_made
    ]_vars

\* the same but for the turns whose line is one token that is no direction
\* word and no torpedo name
C17_CountersOnKnownTokens ==
    [][(step_count' = step_count + 1
          /\ last'.torpedoe \in DOMAIN FIRING_PATTERN_MAP \cup {NoneStr, ""}) =>
        /\ number_of_vollys_fired' =
              IF last'.torpedoe \in DOMAIN FIRING_PATTERN_MAP
              THEN number_of_vollys_fired + 1
              ELSE number_of_vollys_fired
        /\ number_of_moves_made' =
              IF last'.movement \in MovementWords
              THEN number_of_moves_made + 1
              ELSE number_of_moves_made
    ]_vars

\* C18 (registry frame): a turn only takes entries out of the registry, never
\* puts one in or reorders it, and a turn whose command has no resolved torpedo
\* (a movement alone, an empty line, dropped tokens) leaves the registry as it
\* was, also when the ship moves onto a Cubby that carries a mine.
C18_RegistryFrame ==
    [][step_count' = step_count + 1 =>
        /\ mine_locations' =
              Without(mine_locations, RegIds(mine_locations) \ RegIds(mine_locations'))
        /\ RegIds(mine_locations') \subseteq RegIds(mine_locations)
        /\ last'.torpedoe \notin DOMAIN FIRING_PATTERN_MAP =>
              mine_locations' = mine_locations
    ]_vars

\* a turn of a movement alone took the ship onto a Cubby that carries a
\* registered mine; the registry still holds every initial mine
C18_Witness ==
    /\ TurnCompleted
    /\ last.torpedoe = NoneStr
    /\ last.movement \in MovementWords
    /\ current_cubby # NoneRef
    /\ cubbies[current_cubby].mine
    /\ current_cubby \in RegIds(mine_locations)
    /\ number_of_initial_mines = 2
    /\ Len(mine_locations) = 2

\* the four links of every Cubby are those of its place in the grid: west is
\* the Cubby at (x - 1, y), absent iff x = 0; east the one at (x + 1, y), absent
\* iff x = W - 1; north the one at (x, y - 1), absent iff y = 0; south the one at
\* (x, y + 1), absent iff y = H - 1; and the links are mutual
LinkedAsGrid ==
    LET W == Len(matrix[1])
        H == Len(matrix)
    IN
    \A i \in DOMAIN cubbies :
        LET c == cubbies[i] IN
        /\ CellAt(c.x, c.y) = i
        /\ c.west = CellAt(c.x - 1, c.y)
        /\ c.east = CellAt(c.x + 1, c.y)
        /\ c.north = CellAt(c.x, c.y - 1)
        /\ c.south = CellAt(c.x, c.y + 1)
        /\ c.west = NoneRef <=> c.x = 0
        /\ c.east = NoneRef <=> c.x = W - 1
        /\ c.north = NoneRef <=> c.y = 0
        /\ c.south = NoneRef <=> c.y = H - 1
        /\ c.east # NoneRef => cubbies[c.east].west = i
        /\ c.west # NoneRef => cubbies[c.west].east = i
        /\ c.south # NoneRef => cubbies[c.south].north = i
        /\ c.north # NoneRef => cubbies[c.north].south = i

\* the coordinates and the links of the Cubbies
Links(cs) ==
    [i \in DOMAIN cs |-> <<cs[i].x, cs[i].y, cs[i].north, cs[i].south, cs[i].east, cs[i].west>>]

\* C19 (grid linkage): the Cuboid of a rectangular W x H field links every
\* Cubby to the Cubbies next to it in the grid, absent exactly at the edges and
\* mutually, and no turn changes a link.
C19_GridLinkage ==
    /\ []LinkedAsGrid
    /\ [][Links(cubbies') = Links(cubbies) /\ matrix' = matrix]_vars

\* two turns have run on a field of 3 columns and 2 rows and destroyed a mine;
\* the middle Cubby of the top row has its west, east and south links and no
\* north link
C19_Witness ==
    /\ TurnCompleted
    /\ step_count = 2
    /\ Len(matrix) = 2
    /\ Len(matrix[1]) = 3
    /\ \E i \in DOMAIN cubbies : destroyed_times[i] = 1
    /\ number_of_moves_made > 0
    /\ LET c == cubbies[CellAt(1, 0)] IN
          /\ c.west = CellAt(0, 0)
          /\ c.east = CellAt(2, 0)
          /\ c.south = CellAt(1, 1)
          /\ c.north = NoneRef

\* the largest |x offset| and |y offset| between the ship's Cubby and a
\* registered mine, 0 without mines
MaxOffset(axis) ==
    SetMax({0} \cup {Abs(cubbies[i][axis] - cubbies[current_cubby][axis]) :
                        i \in RegIds(mine_locations)})

\* what radar returns on the present state
RadarNow == radar(cubbies, matrix, mine_locations, current_cubby)

\* C20 (viewport never clips): with the ship on a Cubby, the canvas of radar
\* has 2*maxDx+1 columns and 2*maxDy+1 rows; whatever the shift code, the
\* sub-region of ship and registered mines is copied wholly inside the canvas
\* (start offsets >= 0, start + size <= canvas size) without error, and the
\* symbol of every registered mine and of the ship's Cubby stands in the frame
\* where the copy puts it.
C20_ViewportNeverClips ==
    (pc \in {"loop", "done"} /\ current_cubby # NoneRef) =>
        \E R \in {RadarNow} :
            /\ R.blank_cols = 2 * MaxOffset("x") + 1
            /\ R.blank_rows = 2 * MaxOffset("y") + 1
            /\ R.shift \in {"", "-", "+", "--", "++", "+-", "-+"}
            /\ R.y_start >= 0
            /\ R.x_start >= 0
            /\ R.y_start + R.sub_rows <= R.blank_rows
            /\ R.x_start + R.sub_cols <= R.blank_cols
            /\ R.err = "none"
            /\ \A i \in RegIds(mine_locations) \cup {current_cubby} :
                  R.frame[R.y_start + (cubbies[i].y - R.bounds.y_min) + 1]
                         [R.x_start + (cubbies[i].x - R.bounds.x_min) + 1] = cubbies[i].z

\* after a turn the ship stands west of the centre of a 3 x 3 field with a
\* mine to its north-east, two columns away: shift code "+-", a canvas of 5 x 3
\* and a sub-region of 3 x 2 copied two columns in
C20_Witness ==
    /\ TurnCompleted
    /\ pc = "loop"
    /\ Len(matrix) = 3
    /\ current_cubby = CellAt(0, 1)
    /\ CellAt(2, 0) \in RegIds(mine_locations)
    /\ RadarNow.shift = "+-"
    /\ RadarNow.blank_cols = 5
    /\ RadarNow.blank_rows = 3
    /\ RadarNow.sub_cols = 3
    /\ RadarNow.sub_rows = 2
    /\ RadarNow.x_start = 2
    /\ RadarNow.y_start = 0
    /\ cubbies[CellAt(2, 0)].z = "b"
    /\ RadarNow.frame = << <<".", ".", ".", ".", "b">>,
                           <<".", ".", ".", ".", ".">>,
                           <<".", ".", ".", ".", ".">> >>

\* C21 (passed is terminal): a Cubby whose mine has passed shows '*' and keeps
\* its mine flag; destroy_mine on it, alone or from a torpedo, returns False; no
\* call changes it (a further update_depth leaves '*' and the passed flag), and
\* its entry stays in the registry.
C21_PassedIsTerminal ==
    [][\A i \in DOMAIN cubbies :
        cubbies[i].mine_passed =>
            /\ cubbies[i].z = MINE_PASSED_MARKER
            /\ cubbies'[i] = cubbies[i]
            /\ (CallDestroyMine(i) \/ CallTorpedoHit(i)) => call'.returned = "False"
            /\ i \in RegIds(mine_locations) => i \in RegIds(mine_locations')
            /\ destroyed_times'[i] = destroyed_times[i]
    ]_vars

\* a torpedo hit a registered Cubby whose mine had passed: destroy_mine
\* returned False, the Cubby still shows '*' and is still registered
C21_Witness ==
    \E i \in DOMAIN cubbies :
        /\ call = [method |-> "torpedo", cubby |-> i, returned |-> "False"]
        /\ cubbies[i].mine_passed
        /\ cubbies[i].mine
        /\ cubbies[i].z = MINE_PASSED_MARKER
        /\ InitialSymbol(i) = "c"
        /\ i \in RegIds(mine_locations)

\* ------------------------------------------------------ yewno-new-graph.py
\* string.ascii_letters[i] with Python's indexing (within the bounds the index
\* stays above -Len(ascii_letters))
LetterAt(i) ==
    IF i >= 0 THEN ascii_letters[i + 1] ELSE ascii_letters[Len(ascii_letters) + i + 1]

\* the Cubby after Cubby.update_depth of yewno-new-graph.py
new_graph_update_depth(c) ==
    LET z == LetterAt(-c.depth - 3) IN
    IF z = MINE_PASSED_MARKER
    THEN [c EXCEPT !.z = z, !.mine_passed = TRUE]
    ELSE [c EXCEPT !.z = z, !.depth = c.depth + 1]

RECURSIVE NewGraphDecayFrom(_, _, _)
\* the loop of Cuboid.update_depths of yewno-new-graph.py over the registry
NewGraphDecayFrom(cs, ml, k) ==
    IF k > Len(ml) THEN cs
    ELSE NewGraphDecayFrom([cs EXCEPT ![ml[k][3]] = new_graph_update_depth(@)], ml, k + 1)

\* Cuboid.update_depths of yewno-new-graph.py
new_graph_update_depths(S) ==
    IF \E k \in 1..Len(S.mine_locations) : S.cubbies[S.mine_locations[k][3]].depth = NoneDepth
    THEN [S EXCEPT !.err = "TypeError"]
    ELSE [S EXCEPT !.cubbies = NewGraphDecayFrom(@, S.mine_locations, 1)]

\* Cuboid(field), Ship(cuboid) of yewno-new-graph.py and the first lines of
\* run(script) for a script of n commands: the ship's Cubby shows SHIP_MARKER
NewGraphShip(f, n) ==
    LET cs == CuboidCubbies(f)
        m == CuboidMatrix(f)
        d == CuboidDimensions(f)
        x == d[1] \div 2
        y == d[2] \div 2
        cc == m[y + 1][x + 1]
    IN
    [ cubbies |-> [cs EXCEPT ![cc].z = SHIP_MARKER],
      mine_locations |-> CuboidMineLocations(f),
      ship_x |-> x, ship_y |-> y, ship_z |-> 0,
      current_cubby |-> cc, show_ship |-> TRUE,
      previous_cubby_marker |-> cs[cc].z,
      number_of_moves_made |-> 0, number_of_vollys_fired |-> 0,
      number_of_initial_mines |-> Len(CuboidMineLocations(f)),
      starting_score |-> 10 * Len(CuboidMineLocations(f)),
      number_of_commands_left |-> n, step_count |-> 0,
      destroyed_times |-> [i \in DOMAIN cs |-> 0],
      err |-> "none", verdict |-> <<NoneStr, -1>>, pc |-> "loop" ]

\* one pass of the loop of Ship.run of yewno-new-graph.py: commands_left,
\* parse, torpedo, movement, check_score, return on a verdict, else decay
new_graph_run_step(g, command_line) ==
    LET left == g.number_of_commands_left - 1
        tm == handle_command_line(command_line)
        S0 == [g EXCEPT !.number_of_commands_left = left,
                        !.step_count = @ + 1,
                        !.ship_z = IF tm[2] # DOWN THEN @ - 1 ELSE @]
        S1 == IF Truthy(tm[1]) THEN handle_torpedoe(S0, tm[1]) ELSE S0
        S2 == IF S1.err = "none" /\ Truthy(tm[2]) THEN handle_movement(S1, tm[2]) ELSE S1
        v == check_score(S2.cubbies, S2.mine_locations, left,
                         S2.number_of_vollys_fired, S2.number_of_moves_made,
                         S2.number_of_initial_mines, S2.starting_score)
        S3 == new_graph_update_depths(S2)
    IN
    IF S2.err # "none" THEN [S2 EXCEPT !.pc = "crashed"]
    ELSE IF v[1] # NoneStr THEN [S2 EXCEPT !.verdict = v, !.pc = "done"]
    ELSE IF S3.err # "none" THEN [S3 EXCEPT !.pc = "crashed"]
    ELSE S3

\* what yewno-new-graph.py's steps leave alone: all of yewno.py's state
NewGraphFrame ==
    UNCHANGED <<field, matrix, dimensions, cubbies, mine_locations, ship_x,
                ship_y, ship_z, current_cubby, show_ship, previous_cubby_marker,
                number_of_moves_made, number_of_vollys_fired,
                number_of_initial_mines, number_of_commands_left,
                starting_score, step_count, pc, err, verdict, last, call,
                destroyed_times>>

\* yewno-new-graph.py is started on the field and script length yewno.py got
NewGraphStart ==
    /\ ng = NoNewGraph
    /\ pc = "loop"
    /\ step_count = 0
    /\ ng' = NewGraphShip(field, number_of_commands_left)
    /\ NewGraphFrame

\* both programs read the same command line of the script
BothTurn(command_line) ==
    /\ ng.pc = "loop"
    /\ ng.step_count = step_count
    /\ execute_command_turn(command_line)
    /\ \E g \in { new_graph_run_step(ng, command_line) } : ng' = g

\* yewno.py has left its loop, yewno-new-graph.py reads the next command line
NewGraphTurn(command_line) ==
    /\ pc \in {"done", "crashed"}
    /\ ng.pc = "loop"
    /\ ng.number_of_commands_left > 0
    /\ \E g \in { new_graph_run_step(ng, command_line) } : ng' = g
    /\ NewGraphFrame

\* the recognized commands the two programs are compared on
BothCommandLines ==
    { <<NORTH>>, <<SOUTH>>, <<EAST>>, <<WEST>>, <<ALPHA>>, <<BETA>>, <<GAMMA>>,
      <<DELTA>>, <<ALPHA, NORTH>>, <<GAMMA, EAST>>, <<DELTA, SOUTH>> }

\* fields the two programs are compared on: <<width, height>>
BothDims == { <<1, 1>>, <<2, 2>>, <<3, 3>> }

InitBoth ==
    \E d \in BothDims : \E f \in Fields(d[1], d[2]) : \E n \in 1..MaxScript :
        Construct(f, n)

NextBoth ==
    \/ NewGraphStart
    \/ \E command_line \in BothCommandLines :
          BothTurn(command_line) \/ NewGraphTurn(command_line)

SpecBoth == InitBoth /\ [][NextBoth]_vars

\* C22: the two programs agree. Run on the same field and script they leave
\* their loops on the same turn with the same verdict and the same score, and
\* after every turn both have completed every mine registered in both shows
\* the same symbol (the Cubby under yewno-new-graph.py's ship marker aside).
C22_ImplementationsAgree ==
    (ng.pc # "absent" /\ ng.step_count = step_count /\ step_count > 0) =>
        /\ pc = "done" <=> ng.pc = "done"
        /\ pc = "done" => verdict = ng.verdict
        /\ (err = "none" /\ ng.err = "none") =>
               \A i \in RegIds(mine_locations) \cap RegIds(ng.mine_locations) :
                   i # ng.current_cubby => cubbies[i].z = ng.cubbies[i].z

\* C23: the registry matches the mine flags. In every state a Cubby has an
\* entry in mine_locations exactly when its mine flag is set, no Cubby has two
\* entries, and so the registry is as long as there are undestroyed mines,
\* passed ones included; the entry is of the Cubby's own coordinates.
C23_RegistryMatchesMineFlags ==
    /\ \A i \in DOMAIN cubbies : i \in RegIds(mine_locations) <=> cubbies[i].mine
    /\ \A k, l \in 1..Len(mine_locations) :
          mine_locations[k][3] = mine_locations[l][3] => k = l
    /\ Len(mine_locations) = Cardinality({i \in DOMAIN cubbies : cubbies[i].mine})
    /\ \A k \in 1..Len(mine_locations) :
          mine_locations[k] = mine_location(cubbies[mine_locations[k][3]])

\* a torpedo took the second of two mines out of the registry; the first is
\* still registered, and has been passed
C23_Witness ==
    /\ TurnCompleted
    /\ number_of_initial_mines = 2
    /\ Len(mine_locations) = 1
    /\ \E i, j \in DOMAIN cubbies :
          /\ i < j
          /\ mine_locations[1][3] = i
          /\ cubbies[i].mine_passed
          /\ destroyed_times[j] = 1

\* C24: the ship's coordinate agrees with its Cubby. In every state in which
\* the ship is on a Cubby of the grid, the ship's (x, y) is that Cubby's
\* (x, y), after any north, south, east and west movements that stay on the grid.
C24_ShipCoordinateAgreesWithCubby ==
    current_cubby # NoneRef =>
        /\ ship_x = cubbies[current_cubby].x
        /\ ship_y = cubbies[current_cubby].y

\* C25: the ship is always on the grid. After any sequence of commands the
\* ship's current_cubby is a Cubby of the grid, never None: a movement toward
\* an absent neighbor leaves the ship on a Cubby, and no turn fails for want
\* of one.
C25_ShipAlwaysOnGrid ==
    step_count > 0 =>
        /\ current_cubby \in DOMAIN cubbies
        /\ err # "AttributeError"

\* C26: the depth counter. z starts at 0 and after k command lines have been
\* parsed z = -k: every command line lowers z by exactly one, whether it
\* resolves to a movement, to a torpedo alone, to both or to nothing, and
\* nothing ever raises z.
C26_DepthCounter ==
    /\ ship_z = -step_count
    /\ ship_z <= 0

\* two lines were parsed, the second resolved to nothing (no torpedo, no
\* movement), and z is -2
C26_Witness ==
    /\ TurnCompleted
    /\ step_count = 2
    /\ last = NoTurn
    /\ ship_z = -2

\* ------------------------------------------- runs on fields four Cubbies wide
\* <<width, height>> of fields on which mines can lie on both sides of the
\* ship at different distances
ViewportDims == { <<4, 3>>, <<3, 4>> }

InitViewport ==
    \E d \in ViewportDims : \E f \in GridFields(d[1], d[2]) : \E n \in 0..MaxScript :
        Construct(f, n)

\* the lines of the scripts run on these fields
ViewportCommandLines ==
    { <<NORTH>>, <<SOUTH>>, <<EAST>>, <<WEST>>, <<GAMMA>>, <<ALPHA, EAST>> }

NextViewport ==
    \/ \E command_line \in ViewportCommandLines : Turn(command_line)
    \/ Finish

SpecViewport == InitViewport /\ [][NextViewport]_vars

\* C27: the ship is centred in the viewport. With the ship on a Cubby, for
\* every shift code the ship's Cubby is copied to column maxDx and row maxDy of
\* the canvas of (2*maxDx+1) x (2*maxDy+1), its exact centre, and every
\* registered mine is copied to the centre plus its offset from the ship's
\* Cubby; their symbols stand there in the frame.
C27_ShipCentredInViewport ==
    (pc \in {"loop", "done"} /\ current_cubby # NoneRef) =>
        \E R \in {RadarNow} :
            LET cx == MaxOffset("x")
                cy == MaxOffset("y")
                ship == cubbies[current_cubby]
            IN
            /\ R.err = "none"
            /\ R.blank_cols = 2 * cx + 1
            /\ R.blank_rows = 2 * cy + 1
            /\ R.x_start + (ship.x - R.bounds.x_min) = cx
            /\ R.y_start + (ship.y - R.bounds.y_min) = cy
            /\ R.frame[cy + 1][cx + 1] = ship.z
            /\ \A i \in RegIds(mine_locations) :
                  LET col == cx + (cubbies[i].x - ship.x)
                      row == cy + (cubbies[i].y - ship.y)
                  IN /\ col \in 0..(2 * cx)
                     /\ row \in 0..(2 * cy)
                     /\ R.x_start + (cubbies[i].x - R.bounds.x_min) = col
                     /\ R.y_start + (cubbies[i].y - R.bounds.y_min) = row
                     /\ R.frame[row + 1][col + 1] = cubbies[i].z

\* after a turn the ship stands in the second column of a field four wide,
\* with a mine one column to its west and a mine two columns to its east: a
\* canvas five wide, a sub-region four wide copied one column in, the ship in
\* the middle column
C27_Witness ==
    /\ TurnCompleted
    /\ pc = "loop"
    /\ Len(matrix[1]) = 4
    /\ cubbies[current_cubby].x = 1
    /\ \E i, j \in RegIds(mine_locations) : cubbies[i].x = 0 /\ cubbies[j].x = 3
    /\ RadarNow.blank_cols = 5
    /\ RadarNow.sub_cols = 4
    /\ RadarNow.x_start = 1
    /\ RadarNow.x_start + (cubbies[current_cubby].x - RadarNow.bounds.x_min) = 2

\* ------------------------------- runs of non-empty scripts of known commands
\* the lines of these scripts: recognized commands only
RunCommandLines ==
    { <<NORTH>>, <<SOUTH>>, <<EAST>>, <<WEST>>,
      <<ALPHA>>, <<BETA>>, <<GAMMA>>, <<DELTA>>,
      <<ALPHA, NORTH>>, <<BETA, WEST>>, <<GAMMA, EAST>>, <<DELTA, SOUTH>> }

InitRuns ==
    \E d \in FieldDims : \E f \in Fields(d[1], d[2]) : \E n \in 1..MaxScript :
        Construct(f, n)

NextRuns ==
    \E command_line \in RunCommandLines : Turn(command_line)

\* the for loop of execute_command_scrip_file goes on to the next command
\* line as long as there is one and nothing broke it
SpecRuns == InitRuns /\ [][NextRuns]_vars /\ WF_vars(NextRuns)

\* what C28 says of every state and step: check_score never answers "still
\* running" with no command left, a turn that leaves no command is scored pass
\* or fail, commands_left is never negative and goes down by one with every
\* turn started, so that it is the script's length less the turns started
RunBookkeeping ==
    /\ [](/\ number_of_commands_left >= 0
          /\ check_score(cubbies, mine_locations, 0, number_of_vollys_fired,
                         number_of_moves_made, number_of_initial_mines,
                         starting_score)[1] \in {PASS, FAIL}
          /\ (TurnCompleted /\ number_of_commands_left = 0) =>
                 (pc = "done" /\ verdict[1] \in {PASS, FAIL})
          /\ pc = "done" => verdict[1] \in {PASS, FAIL}
          /\ pc = "loop" => (verdict[1] = NoneStr /\ number_of_commands_left > 0))
    /\ [][/\ step_count' >= step_count
          /\ number_of_commands_left' + step_count' = number_of_commands_left + step_count
       ]_vars

\* C28: every run reaches a verdict. On every field and every non-empty
\* script of recognized commands the run ends, and unless a movement took the
\* ship off the grid it ends on a turn scored pass or fail, after at most as
\* many turns as the script has lines; check_score never answers "still
\* running" with no command left; commands_left is never negative and is the
\* script's length less the turns started.
C28_EveryRunReachesVerdict ==
    /\ RunBookkeeping
    /\ <>(pc = "done" \/ err = "AttributeError")

\* C28 on the fields Ship.__init__ accepts: there every run ends on a turn
\* scored pass or fail or on the turn that moved the ship off the grid
C28_VerdictOnceShipConstructed ==
    /\ RunBookkeeping
    /\ <>(pc = "done" \/ err = "AttributeError" \/ (step_count = 0 /\ err = "IndexError"))
    /\ [](err \in {"none", "AttributeError"} \/ (step_count = 0 /\ err = "IndexError"))

\* a script of MaxScript lines ran to its last line: no command is left, as
\* many turns were started as the script is long, and the last one was scored
C28_Witness ==
    /\ TurnCompleted
    /\ step_count = MaxScript
    /\ number_of_commands_left = 0
    /\ pc = "done"
    /\ verdict[1] \in {PASS, FAIL}
    /\ number_of_moves_made > 0
    /\ number_of_vollys_fired > 0
====
